---- MODULE Spec2Model ----
(***************************************************************************)
(* A model of src/utils.py: CsvToList, WriteToS3, ReadFromS3 and            *)
(* ReadWriteToSQS, together with the parts of the file system, the object   *)
(* store and the queue service that their calls read and change.            *)
(*                                                                          *)
(* Python values are modelled as records: None is [kind |-> "None"], any    *)
(* other object v is [kind |-> "obj", val |-> v].  A str whose characters   *)
(* matter (a CSV cell) is a sequence of one-character strings.              *)
(***************************************************************************)
EXTENDS Integers, Sequences, FiniteSets, TLC

VARIABLES
    op,            \* the operation that made the last step ("none" at start)
    calls,         \* the SDK / OS calls the last operation made: <<[api, ok]>>
    logs,          \* the log lines the last operation emitted: <<[level, msg]>>
    ret,           \* the value the last operation returned (None when it raised)
    raised,        \* the exception that left the last operation, "" when none
    csv_files,     \* file system: file name -> NoFile or [fieldnames, rows]
    c_file_name,   \* CsvToList.file_name
    s3_objects,    \* object store: existing bucket -> set of [Key, Body]
    w_file_name,   \* WriteToS3.file_name
    w_bucket_name, \* WriteToS3.bucket_name
    w_object_name, \* WriteToS3.object_name
    w_s3_path,     \* WriteToS3.s3_path
    w_given_name,  \* the object_name argument the writer was constructed with
    r_bucket_name, \* ReadFromS3.bucket_name
    r_s3_path,     \* ReadFromS3.s3_path
    msgs,          \* queue service: message id -> [param, Body, inQueue, hidden, deliveries]
    deleted_with,  \* receipt handles whose delete_message call removed a message
    waits,         \* number of long polls that ran out with messages still hidden
    waited,        \* time units the last operation blocked in its long poll
    arg_queue,     \* queue_name argument of the last queue operation
    arg_handle,    \* receipt_handle argument of the last delete_sqs_message
    delivered      \* id of the message the last receive_message call delivered, 0 when none

vars == <<op, calls, logs, ret, raised, csv_files, c_file_name, s3_objects,
          w_file_name, w_bucket_name, w_object_name, w_s3_path, w_given_name,
          r_bucket_name, r_s3_path, msgs, deleted_with, waits, waited,
          arg_queue, arg_handle, delivered>>

csvVars == <<csv_files, c_file_name>>
s3Vars == <<s3_objects, w_file_name, w_bucket_name, w_object_name, w_s3_path,
            w_given_name, r_bucket_name, r_s3_path>>
sqsVars == <<msgs, deleted_with, waits, waited, arg_queue, arg_handle, delivered>>

(***************************************************************************)
(* Python values and the result of a call.                                 *)
(***************************************************************************)
None == [kind |-> "None"]

Obj(v) == [kind |-> "obj", val |-> v]

Call(api, ok) == [api |-> api, ok |-> ok]

Log(level, msg) == [level |-> level, msg |-> msg]

Min(a, b) == IF a <= b THEN a ELSE b

SetMax(S) == CHOOSE x \in S : \A y \in S : y <= x

\* The idle values of the variables a component does not use.
CommonInit ==
    /\ op = "none"
    /\ calls = <<>>
    /\ logs = <<>>
    /\ ret = None
    /\ raised = ""

CsvIdle ==
    /\ csv_files = <<>>
    /\ c_file_name = ""

S3Idle ==
    /\ s3_objects = <<>>
    /\ w_file_name = ""
    /\ w_bucket_name = ""
    /\ w_object_name = None
    /\ w_s3_path = <<>>
    /\ w_given_name = None
    /\ r_bucket_name = ""
    /\ r_s3_path = <<>>

SqsIdle ==
    /\ msgs = <<>>
    /\ deleted_with = {}
    /\ waits = 0
    /\ waited = 0
    /\ arg_queue = ""
    /\ arg_handle = <<0, 0>>
    /\ delivered = 0

(***************************************************************************)
(* CsvToList                                                               *)
(***************************************************************************)
MaxRows == 2
MaxCols == 2

\* Cell texts of the data rows and the header names, as character sequences.
Cells == {<<"F", "o">>, <<"b">>}
FieldNames == {<<"k">>, <<"l">>}
FileNames == {"kw", "gone"}

NoFile == [exists |-> FALSE]

SeqsUpTo(S, lo, hi) == UNION {[1..n -> S] : n \in lo..hi}

\* A row as csv.reader yields it; an empty line yields the empty row.
CsvRows == SeqsUpTo(Cells, 0, MaxCols)

CsvContents ==
    {[exists |-> TRUE, fieldnames |-> h, rows |-> rs] :
        h \in SeqsUpTo(FieldNames, 1, MaxCols), rs \in SeqsUpTo(CsvRows, 0, MaxRows)}

\* str.lower(), character by character.
LowerChar(c) ==
    CASE c = "F" -> "f"
      [] c = "B" -> "b"
      [] c = "K" -> "k"
      [] OTHER -> c

lower_unchanged(s) == s

lower(s) == [i \in DOMAIN s |-> LowerChar(s[i])]

\* csv.DictReader.__next__: d = dict(zip(fieldnames, row)), where a repeated
\* key keeps its last value; then every key of fieldnames[len(row):] is set
\* to restval (None).  The surplus cells of a long row go under restkey,
\* which csv_to_list never reads.
DictRow(fieldnames, row) ==
    [k \in {fieldnames[i] : i \in DOMAIN fieldnames} |->
        LET at == {i \in DOMAIN fieldnames : fieldnames[i] = k}
        IN  IF \E i \in at : i > Len(row) THEN None ELSE Obj(row[SetMax(at)])]

\* The rows csv.DictReader iterates over: empty rows are skipped.
DataRows(file) == SelectSeq(file.rows, LAMBDA r : r # <<>>)

\* Lines 33-35: the loop body for each row of the reader.
Keywords(file) ==
    LET rows == DataRows(file)
    IN  [i \in DOMAIN rows |->
            LET keyword_location_pair == DictRow(file.fieldnames, rows[i])
                item == keyword_location_pair[file.fieldnames[1]]
            IN  IF item = None THEN None ELSE Obj(lower(item.val))]

\* Lines 37-38: the handler of FileNotFoundError; the function then ends
\* without a return statement.
except_FileNotFoundError_unhandled ==
    [logs |-> <<>>, ret |-> None, raised |-> "FileNotFoundError"]

except_FileNotFoundError ==
    [logs |-> <<Log("error", "csv file not found")>>, ret |-> None, raised |-> ""]

csv_to_list ==
    LET file == csv_files[c_file_name]
    IN  /\ op' = "csv_to_list"
        /\ IF ~file.exists
           THEN /\ calls' = <<Call("open", FALSE)>>
                /\ logs' = except_FileNotFoundError.logs
                /\ ret' = except_FileNotFoundError.ret
                /\ raised' = except_FileNotFoundError.raised
           ELSE /\ calls' = <<Call("open", TRUE)>>
                /\ logs' = <<>>
                /\ IF \E i \in DOMAIN Keywords(file) : Keywords(file)[i] = None
                   THEN ret' = None /\ raised' = "AttributeError"
                   ELSE /\ ret' = Obj([i \in DOMAIN Keywords(file) |-> Keywords(file)[i].val])
                        /\ raised' = ""
        /\ UNCHANGED <<csvVars, s3Vars, sqsVars>>

InitCsv ==
    /\ CommonInit
    /\ S3Idle
    /\ SqsIdle
    /\ c_file_name \in FileNames
    /\ \E content \in CsvContents :
          csv_files = [f \in FileNames |-> IF f = "kw" THEN content ELSE NoFile]

NextCsv == csv_to_list

SpecCsv == InitCsv /\ [][NextCsv]_vars

\* The file csv_to_list was asked to read.
CsvFile == csv_files[c_file_name]

\* t is s with every upper-case letter replaced by its lower-case letter.
CaseFolded(s, t) ==
    /\ Len(t) = Len(s)
    /\ \A j \in DOMAIN s : t[j] = LowerChar(s[j])

\* The returned list holds, row by row, the folded first cell of each row.
FirstCellsFolded ==
    /\ ret # None
    /\ Len(ret.val) = Len(DataRows(CsvFile))
    /\ \A i \in DOMAIN ret.val : CaseFolded(DataRows(CsvFile)[i][1], ret.val[i])

\* C7 as stated: on every existing file the result is, in file order, the
\* lower-cased first cell of every data row.
C7_AnyHeader ==
    (op = "csv_to_list" /\ CsvFile.exists) => FirstCellsFolded

FirstNameUnique ==
    \A i \in DOMAIN CsvFile.fieldnames : i > 1 => CsvFile.fieldnames[i] # CsvFile.fieldnames[1]

\* C7 amended: when no later header column repeats the first column's name,
\* csv_to_list on an existing file returns one string per non-empty data row,
\* in file order, each the lower-cased first cell of its row (so an existing
\* file without data rows gives the empty list).
C7_UniqueFirstName ==
    (op = "csv_to_list" /\ CsvFile.exists /\ FirstNameUnique) => FirstCellsFolded

C7_Witness ==
    /\ op = "csv_to_list"
    /\ CsvFile.exists
    /\ FirstNameUnique
    /\ Len(CsvFile.fieldnames) = 2
    /\ Len(CsvFile.rows) = 2
    /\ CsvFile.rows[1] = <<<<"F", "o">>, <<"b">>>>
    /\ CsvFile.rows[2] = <<<<"b">>, <<"F", "o">>>>
    /\ ret = Obj(<<<<"f", "o">>, <<"b">>>>)

\* C8: csv_to_list on a missing file returns None, logs one error and lets no
\* exception out.
C8_MissingFile ==
    (op = "csv_to_list" /\ ~CsvFile.exists) =>
        /\ ret = None
        /\ raised = ""
        /\ \E i \in DOMAIN logs : logs[i].level = "error"

C8_Witness ==
    /\ op = "csv_to_list"
    /\ ~CsvFile.exists
    /\ calls = <<Call("open", FALSE)>>

(***************************************************************************)
(* WriteToS3 and ReadFromS3                                                *)
(***************************************************************************)
MaxObjects == 150
MaxKeys == 100

BucketNames == {"b1", "nb"}
ExistingBuckets == {"b1"}

\* An object key is <<folder, number>>; a prefix is a leading part of a key.
S3Paths == {<<"d", 0>>, <<"d", 1>>}
Prefixes == {<<"d">>, <<"e">>, <<"x">>}
PayloadNames == {"f1", "f2"}

SeedCounts == {0, MaxKeys - 1, MaxKeys, MaxObjects}

Seed(n) ==
    {[Key |-> <<"d", i>>, Body |-> "seed"] : i \in 1..n}
        \cup {[Key |-> <<"e", 1>>, Body |-> "seed"]}

IsPrefix(p, k) == Len(p) <= Len(k) /\ SubSeq(k, 1, Len(p)) = p

FolderRank(f) == IF f = "d" THEN 1 ELSE 2

\* The order in which the store lists keys.
KeyLess(a, b) ==
    \/ FolderRank(a[1]) < FolderRank(b[1])
    \/ a[1] = b[1] /\ a[2] < b[2]

\* dict.get(key): None when the key is absent.
dict_get(d, key) == IF key \in DOMAIN d THEN Obj(d[key]) ELSE None

\* The keys in the order the store lists them: the lower half, the middle
\* key, the upper half.
RECURSIVE SortKeys(_)
SortKeys(keys) ==
    IF keys = {}
    THEN <<>>
    ELSE LET half == Cardinality(keys) \div 2
             middle == CHOOSE k \in keys : Cardinality({j \in keys : KeyLess(j, k)}) = half
         IN  SortKeys({j \in keys : KeyLess(j, middle)})
                \o <<middle>>
                \o SortKeys({j \in keys : KeyLess(middle, j)})

\* One page of a listing: the first max_keys keys.
FirstPage_unlimited(sorted, max_keys) == sorted

FirstPage(sorted, max_keys) == SubSeq(sorted, 1, Min(Len(sorted), max_keys))

\* s3_client.list_objects_v2(Bucket, Prefix, MaxKeys): the response carries
\* "Contents" only when at least one key matches.
list_objects_v2(objects, prefix, max_keys) ==
    LET matching == SortKeys({o.Key : o \in {x \in objects : IsPrefix(prefix, x.Key)}})
        page == FirstPage(matching, max_keys)
        contents == [i \in DOMAIN page |-> [Key |-> page[i]]]
    IN  IF Len(page) = 0
        THEN [KeyCount |-> 0, IsTruncated |-> FALSE]
        ELSE [Contents |-> contents, KeyCount |-> Len(page),
              IsTruncated |-> Len(matching) > Len(page)]

\* obj.put(Body): creates the object or replaces the one under the same key.
put_object(objects, key, body) ==
    {o \in objects : o.Key # key} \cup {[Key |-> key, Body |-> body]}

\* Lines 62-63: the default of object_name.
default_object_name_kept(object_name, file_name) == object_name

default_object_name(object_name, file_name) ==
    IF object_name = None THEN Obj(file_name) ELSE object_name

\* fault: the store rejects the call although the bucket exists.
write_file_to_s3(fault) ==
    LET ok == w_bucket_name \in ExistingBuckets /\ ~fault
    IN  /\ op' = "write_file_to_s3"
        /\ w_object_name' = default_object_name(w_object_name, w_file_name)
        /\ calls' = <<Call("put_object", ok)>>
        /\ IF ok
           THEN /\ s3_objects' = [s3_objects EXCEPT ![w_bucket_name] =
                                     put_object(@, w_s3_path, w_file_name)]
                /\ logs' = <<Log("info", "File uploaded successfully")>>
           ELSE /\ s3_objects' = s3_objects
                /\ logs' = <<Log("error", "file upload failed")>>
        /\ ret' = None
        /\ raised' = ""
        /\ UNCHANGED <<w_file_name, w_bucket_name, w_s3_path, w_given_name,
                       r_bucket_name, r_s3_path, csvVars, sqsVars>>

list_all_path_in_s3_folder(fault) ==
    LET ok == r_bucket_name \in ExistingBuckets /\ ~fault
    IN  /\ op' = "list_all_path_in_s3_folder"
        /\ calls' = <<Call("list_objects_v2", ok)>>
        /\ IF ok
           THEN /\ logs' = <<Log("info", "successfully read from s3")>>
                /\ ret' = dict_get(list_objects_v2(s3_objects[r_bucket_name], r_s3_path, MaxKeys),
                                   "Contents")
           ELSE /\ logs' = <<Log("error", "Failed to read file from s3")>>
                /\ ret' = None
        /\ raised' = ""
        /\ UNCHANGED <<s3Vars, csvVars, sqsVars>>

InitS3 ==
    /\ CommonInit
    /\ CsvIdle
    /\ SqsIdle
    /\ \E n \in SeedCounts : s3_objects = [b \in ExistingBuckets |-> Seed(n)]
    /\ w_file_name \in PayloadNames
    /\ w_bucket_name \in BucketNames
    /\ w_s3_path \in S3Paths
    /\ w_given_name \in {None, Obj("o")}
    /\ w_object_name = w_given_name
    /\ r_bucket_name \in BucketNames
    /\ r_s3_path \in Prefixes

NextS3 ==
    \/ \E fault \in BOOLEAN : write_file_to_s3(fault)
    \/ \E fault \in BOOLEAN : list_all_path_in_s3_folder(fault)

SpecS3 == InitS3 /\ [][NextS3]_vars

\* The objects of the writer's bucket stored under the writer's key.
AtWriterPath ==
    IF w_bucket_name \in ExistingBuckets
    THEN {o \in s3_objects[w_bucket_name] : o.Key = w_s3_path}
    ELSE {}

\* C6: after write_file_to_s3 the writer's object_name is file_name when it
\* was built with None and the given name otherwise, and a put that went
\* through leaves exactly one object under key s3_path of bucket_name, whose
\* body is the payload.
C6_DefaultObjectName ==
    op = "write_file_to_s3" =>
        /\ w_given_name = None => w_object_name = Obj(w_file_name)
        /\ w_given_name # None => w_object_name = w_given_name
        /\ calls = <<Call("put_object", TRUE)>> =>
               AtWriterPath = {[Key |-> w_s3_path, Body |-> w_file_name]}

C6_Witness ==
    /\ op = "write_file_to_s3"
    /\ w_given_name = None
    /\ w_object_name = Obj(w_file_name)
    /\ calls = <<Call("put_object", TRUE)>>
    /\ w_s3_path = <<"d", 1>>
    /\ Cardinality(s3_objects[w_bucket_name]) > 2

\* The number of keys of the reader's bucket that match the reader's prefix.
Matching ==
    IF r_bucket_name \in ExistingBuckets
    THEN Cardinality({o \in s3_objects[r_bucket_name] : IsPrefix(r_s3_path, o.Key)})
    ELSE 0

\* The number of descriptors in a returned value (an absent result has none).
Descriptors(v) == IF v = None THEN 0 ELSE Len(v.val)

PyStr(s) == [t |-> "str", v |-> s]
PyInt(digits) == [t |-> "int", v |-> digits]
PyBool(text) == [t |-> "bool", v |-> text]
PyNone == [t |-> "NoneType", v |-> "null"]
PyList(items) == [t |-> "list", v |-> items]
PyTuple(items) == [t |-> "tuple", v |-> items]
PyDict(pairs) == [t |-> "dict", v |-> pairs]

Tok(kind, text) == [tok |-> kind, v |-> text]

\* The encoder's text of a scalar.
ScalarToken_quoted(x) == Tok("string", x.v)

ScalarToken(x) ==
    CASE x.t = "str" -> Tok("string", x.v)
      [] x.t = "int" -> Tok("number", x.v)
      [] OTHER -> Tok("literal", x.v)

\* The encoder's text of a dict key: every key is written as a JSON string.
KeyToken(k) == Tok("string", k.v)

RECURSIVE dumps(_)
RECURSIVE dumps_items(_, _)
RECURSIVE dumps_pairs(_, _)
dumps(x) ==
    CASE x.t \in {"list", "tuple"} ->
            <<Tok("punct", "[")>> \o dumps_items(x.v, 1) \o <<Tok("punct", "]")>>
      [] x.t = "dict" ->
            <<Tok("punct", "{")>> \o dumps_pairs(x.v, 1) \o <<Tok("punct", "}")>>
      [] OTHER -> <<ScalarToken(x)>>

dumps_items(items, i) ==
    IF i > Len(items)
    THEN <<>>
    ELSE (IF i > 1 THEN <<Tok("punct", ",")>> ELSE <<>>)
            \o dumps(items[i]) \o dumps_items(items, i + 1)

dumps_pairs(pairs, i) ==
    IF i > Len(pairs)
    THEN <<>>
    ELSE (IF i > 1 THEN <<Tok("punct", ",")>> ELSE <<>>)
            \o <<KeyToken(pairs[i][1]), Tok("punct", ":")>>
            \o dumps(pairs[i][2]) \o dumps_pairs(pairs, i + 1)

\* The decoder: parse_value reads one value starting at token i and gives
\* the value and the position after it.
Parsed(val, next) == [val |-> val, next |-> next]

RECURSIVE parse_value(_, _)
RECURSIVE parse_array(_, _, _)
RECURSIVE parse_object(_, _, _)
parse_value(text, i) ==
    LET tk == text[i]
    IN  CASE tk = Tok("punct", "[") -> parse_array(text, i + 1, <<>>)
          [] tk = Tok("punct", "{") -> parse_object(text, i + 1, <<>>)
          [] tk.tok = "string" -> Parsed(PyStr(tk.v), i + 1)
          [] tk.tok = "number" -> Parsed(PyInt(tk.v), i + 1)
          [] tk = Tok("literal", "null") -> Parsed(PyNone, i + 1)
          [] OTHER -> Parsed(PyBool(tk.v), i + 1)

parse_array(text, i, items) ==
    CASE text[i] = Tok("punct", "]") -> Parsed(PyList(items), i + 1)
      [] text[i] = Tok("punct", ",") -> parse_array(text, i + 1, items)
      [] OTHER -> LET item == parse_value(text, i)
                  IN  parse_array(text, item.next, Append(items, item.val))

parse_object(text, i, pairs) ==
    CASE text[i] = Tok("punct", "}") -> Parsed(PyDict(pairs), i + 1)
      [] text[i] = Tok("punct", ",") -> parse_object(text, i + 1, pairs)
      [] OTHER -> LET value == parse_value(text, i + 2)
                  IN  parse_object(text, value.next,
                                   Append(pairs, <<PyStr(text[i].v), value.val>>))

loads(text) == parse_value(text, 1).val

\* The payloads handed to send_sqs_message.
Payloads ==
    << PyDict(<<<<PyStr("k"), PyStr("v")>>>>),
       PyStr("k"), PyInt("1"), PyNone, PyBool("true"),
       PyList(<<>>), PyList(<<PyInt("1"), PyStr("v")>>),
       PyTuple(<<PyInt("1"), PyStr("v")>>),
       PyList(<<PyTuple(<<PyStr("k")>>)>>),
       PyDict(<<<<PyInt("1"), PyStr("v")>>>>),
       PyDict(<<<<PyStr("k"), PyList(<<PyInt("1")>>)>>, <<PyStr("v"), PyNone>>>>) >>

(***************************************************************************)
(* ReadWriteToSQS and the queue service                                    *)
(***************************************************************************)
MaxMessages == 1
MaxDeliveries == 2
MaxWaits == 1

WaitTimeSeconds == 20
VisibilityTimeout == 600

QueueNames == {"q1", "nq"}
ExistingQueues == {"q1"}

\* A receipt handle names one delivery of one message: <<message id, delivery>>.
NoHandle == <<0, 0>>
IssuedHandles ==
    {h \in (DOMAIN msgs) \X (1..MaxDeliveries) : h[2] <= msgs[h[1]].deliveries}

\* The handle of the latest delivery of a message that is still in the queue.
IsCurrent(h) ==
    /\ h \in IssuedHandles
    /\ msgs[h[1]].inQueue
    /\ msgs[h[1]].deliveries = h[2]

InQueue == {m \in DOMAIN msgs : msgs[m].inQueue}

\* Time passing: every hidden message comes d units closer to being visible.
Elapse(queue, d) ==
    [m \in DOMAIN queue |->
        [queue[m] EXCEPT !.hidden = IF @ > d THEN @ - d ELSE 0]]

\* sqs_client.send_message: the message joins the queue, visible at once.
SendEffect(queue, param, body) ==
    Append(queue, [param |-> param, Body |-> body, inQueue |-> TRUE,
                   hidden |-> 0, deliveries |-> 0])

\* sqs_client.receive_message delivering message m with VisibilityTimeout:
\* the message stays in the queue and is hidden for visibility_timeout.
ReceiveEffect_removing(queue, m, visibility_timeout) ==
    [queue EXCEPT ![m].inQueue = FALSE, ![m].hidden = 0, ![m].deliveries = @ + 1]

ReceiveEffect(queue, m, visibility_timeout) ==
    [queue EXCEPT ![m].hidden = visibility_timeout, ![m].deliveries = @ + 1]

\* sqs_client.delete_message with the handle of the latest delivery.
DeleteEffect(queue, h) ==
    [queue EXCEPT ![h[1]].inQueue = FALSE, ![h[1]].hidden = 0]

ResponseMetadata == [HTTPStatusCode |-> 200]

\* The response of receive_message: "Messages" is present only when a
\* message was delivered.
ReceiveResponse(queue, m) ==
    IF m = 0
    THEN [ResponseMetadata |-> ResponseMetadata]
    ELSE [Messages |-> <<[MessageId |-> m,
                          ReceiptHandle |-> <<m, queue[m].deliveries>>,
                          Body |-> queue[m].Body]>>,
          ResponseMetadata |-> ResponseMetadata]

\* Lines 121-123 called at lines 133, 150 and 168, before the try statement:
\* a ClientError of get_queue_url leaves the operation.
get_queue_url_fails(name) ==
    /\ calls' = <<Call("get_queue_url", FALSE)>>
    /\ logs' = <<>>
    /\ ret' = None
    /\ raised' = "ClientError"
    /\ waited' = 0
    /\ delivered' = 0
    /\ UNCHANGED <<msgs, deleted_with, waits>>

\* The except clauses of the three operations.
send_except == [logs |-> <<Log("error", "Failed to send message to sqs queue")>>, raised |-> ""]

retrieve_except == [logs |-> <<Log("error", "Failed to retrieve message from SQS")>>, raised |-> ""]

delete_except_unhandled == [logs |-> <<>>, raised |-> "ClientError"]

delete_except == [logs |-> <<Log("error", "Failed to delete message with ReceiptHandle")>>, raised |-> ""]

\* Line 156: what retrieve_sqs_messages returns on success.
retrieve_return_messages(response) == dict_get(response, "Messages")

retrieve_return(response) == Obj(response)

\* fault: the service rejects the message call although the queue exists.
send_sqs_message(param, queue_name, fault) ==
    /\ op' = "send_sqs_message"
    /\ arg_queue' = queue_name
    /\ arg_handle' = NoHandle
    /\ IF queue_name \notin ExistingQueues
       THEN get_queue_url_fails(queue_name)
       ELSE /\ calls' = <<Call("get_queue_url", TRUE), Call("send_message", ~fault)>>
            /\ waited' = 0
            /\ delivered' = 0
            /\ UNCHANGED <<deleted_with, waits>>
            /\ IF fault
               THEN /\ logs' = send_except.logs
                    /\ raised' = send_except.raised
                    /\ ret' = None
                    /\ msgs' = msgs
               ELSE /\ Len(msgs) < MaxMessages
                    /\ msgs' = SendEffect(msgs, param, dumps(param))
                    /\ logs' = <<Log("info", "Message successfully sent to SQS")>>
                    /\ raised' = ""
                    /\ ret' = Obj([MessageId |-> Len(msgs) + 1,
                                   ResponseMetadata |-> ResponseMetadata])
    /\ UNCHANGED <<csvVars, s3Vars>>

\* The receive_message call of line 153 when the service accepts it: a
\* visible message is delivered at once; otherwise the call waits up to
\* WaitTimeSeconds for the first hidden message to become visible.
receive_message ==
    LET visible == {m \in InQueue : msgs[m].hidden = 0}
        soon == {m \in InQueue : msgs[m].hidden <= WaitTimeSeconds}
    IN  IF visible # {}
        THEN \E m \in visible :
                /\ msgs[m].deliveries < MaxDeliveries
                /\ msgs' = ReceiveEffect(msgs, m, VisibilityTimeout)
                /\ delivered' = m
                /\ waited' = 0
                /\ waits' = waits
        ELSE IF soon # {}
        THEN \E m \in soon :
                /\ \A n \in soon : msgs[m].hidden <= msgs[n].hidden
                /\ msgs[m].deliveries < MaxDeliveries
                /\ msgs' = ReceiveEffect(Elapse(msgs, msgs[m].hidden), m, VisibilityTimeout)
                /\ delivered' = m
                /\ waited' = msgs[m].hidden
                /\ waits' = waits
        ELSE /\ InQueue # {} => waits < MaxWaits
             /\ waits' = IF InQueue # {} THEN waits + 1 ELSE waits
             /\ msgs' = Elapse(msgs, WaitTimeSeconds)
             /\ delivered' = 0
             /\ waited' = WaitTimeSeconds

retrieve_sqs_messages(queue_name, fault) ==
    /\ op' = "retrieve_sqs_messages"
    /\ arg_queue' = queue_name
    /\ arg_handle' = NoHandle
    /\ IF queue_name \notin ExistingQueues
       THEN get_queue_url_fails(queue_name)
       ELSE /\ calls' = <<Call("get_queue_url", TRUE), Call("receive_message", ~fault)>>
            /\ deleted_with' = deleted_with
            /\ IF fault
               THEN /\ logs' = retrieve_except.logs
                    /\ raised' = retrieve_except.raised
                    /\ ret' = None
                    /\ delivered' = 0
                    /\ waited' = 0
                    /\ UNCHANGED <<msgs, waits>>
               ELSE /\ receive_message
                    /\ logs' = <<Log("info", "Message successfully read from SQS")>>
                    /\ raised' = ""
                    /\ ret' = retrieve_return(ReceiveResponse(msgs', delivered'))
    /\ UNCHANGED <<csvVars, s3Vars>>

\* The delete_message call of line 170: it removes the message when the
\* handle is that of its latest delivery; an unknown handle is rejected; a
\* stale handle is either rejected or accepted without effect.
delete_sqs_message(queue_name, receipt_handle, fault) ==
    LET rejected == fault \/ receipt_handle \notin IssuedHandles
    IN  /\ op' = "delete_sqs_message"
        /\ arg_queue' = queue_name
        /\ arg_handle' = receipt_handle
        /\ IF queue_name \notin ExistingQueues
           THEN get_queue_url_fails(queue_name)
           ELSE /\ calls' = <<Call("get_queue_url", TRUE), Call("delete_message", ~rejected)>>
                /\ waited' = 0
                /\ delivered' = 0
                /\ waits' = waits
                /\ ret' = None
                /\ IF rejected
                   THEN /\ logs' = delete_except.logs
                        /\ raised' = delete_except.raised
                        /\ UNCHANGED <<msgs, deleted_with>>
                   ELSE /\ logs' = <<Log("info", "message successfully deleted with ReceiptHandle")>>
                        /\ raised' = ""
                        /\ IF IsCurrent(receipt_handle)
                           THEN /\ msgs' = DeleteEffect(msgs, receipt_handle)
                                /\ deleted_with' = deleted_with \cup {receipt_handle}
                           ELSE UNCHANGED <<msgs, deleted_with>>
        /\ UNCHANGED <<csvVars, s3Vars>>

\* Time passes between two operations of the caller.
Tick(d) ==
    /\ \E m \in InQueue : msgs[m].hidden > 0
    /\ msgs' = Elapse(msgs, d)
    /\ op' = "tick"
    /\ calls' = <<>>
    /\ logs' = <<>>
    /\ ret' = None
    /\ raised' = ""
    /\ waited' = 0
    /\ delivered' = 0
    /\ UNCHANGED <<deleted_with, waits, arg_queue, arg_handle, csvVars, s3Vars>>

InitSqs ==
    /\ CommonInit
    /\ CsvIdle
    /\ S3Idle
    /\ SqsIdle

\* The payload of the general queue specification: the dict {"k": "v"}.
FewPayloads == {1}

NextSqs ==
    \/ \E i \in FewPayloads, q \in QueueNames, fault \in BOOLEAN :
          send_sqs_message(Payloads[i], q, fault)
    \/ \E q \in QueueNames, fault \in BOOLEAN : retrieve_sqs_messages(q, fault)
    \/ \E q \in QueueNames, h \in IssuedHandles \cup {NoHandle}, fault \in BOOLEAN :
          delete_sqs_message(q, h, fault)
    \/ \E d \in {VisibilityTimeout - WaitTimeSeconds, VisibilityTimeout} : Tick(d)

SpecSqs == InitSqs /\ [][NextSqs]_vars

\* One producer that sends only to an empty queue, and one consumer that
\* receives; time passes between their calls.
NextRoundTrip ==
    \/ /\ InQueue = {}
       /\ \E i \in DOMAIN Payloads, q \in QueueNames, fault \in BOOLEAN :
             send_sqs_message(Payloads[i], q, fault)
    \/ \E q \in QueueNames, fault \in BOOLEAN : retrieve_sqs_messages(q, fault)
    \/ \E d \in {VisibilityTimeout - WaitTimeSeconds, VisibilityTimeout} : Tick(d)

SpecRoundTrip == InitSqs /\ [][NextRoundTrip]_vars

QueueOps == {"send_sqs_message", "retrieve_sqs_messages", "delete_sqs_message"}

Operations ==
    QueueOps \cup {"csv_to_list", "write_file_to_s3", "list_all_path_in_s3_folder"}

SomeCallFailed == \E i \in DOMAIN calls : ~calls[i].ok

Logged(level) == \E i \in DOMAIN logs : logs[i].level = level

\* C1: no queue operation lets a ClientError out, whichever of its calls
\* failed: the failure is logged as an error and the result is None.
C1_QueueOpsNeverRaise ==
    op \in QueueOps =>
        /\ raised = ""
        /\ SomeCallFailed => (ret = None /\ Logged("error"))

\* The last operation was a receive that the service answered without a message.
EmptyReceive ==
    /\ op = "retrieve_sqs_messages"
    /\ calls = <<Call("get_queue_url", TRUE), Call("receive_message", TRUE)>>
    /\ delivered = 0

\* The last operation was a receive whose receive_message call failed.
FailedReceive ==
    /\ op = "retrieve_sqs_messages"
    /\ calls = <<Call("get_queue_url", TRUE), Call("receive_message", FALSE)>>

AbsentOnlyIfDeleted ==
    \A m \in DOMAIN msgs :
        ~msgs[m].inQueue =>
            \E h \in deleted_with : h[1] = m /\ h[2] \in 1..msgs[m].deliveries

\* C3: a receive removes nothing; a message is out of the queue only after
\* a delete with a handle of one of its deliveries; a delivered message was
\* not hidden when it was delivered and is hidden for VisibilityTimeout
\* afterwards; and a receive comes back empty only when no message in the
\* queue is or becomes visible during the poll, so that a message whose
\* timeout has run out is delivered again.
C3_ReceiveKeepsMessage ==
    [][ /\ AbsentOnlyIfDeleted'
        /\ op' = "retrieve_sqs_messages" => InQueue' = InQueue
        /\ (op' = "retrieve_sqs_messages" /\ delivered' # 0) =>
               /\ msgs[delivered'].hidden <= waited'
               /\ waited' <= WaitTimeSeconds
               /\ msgs'[delivered'].hidden = 600
        /\ EmptyReceive' => \A m \in InQueue : msgs[m].hidden > 20 ]_vars

C3_Witness ==
    /\ op = "retrieve_sqs_messages"
    /\ delivered # 0
    /\ msgs[delivered].inQueue
    /\ msgs[delivered].deliveries = 2
    /\ msgs[delivered].hidden = VisibilityTimeout
    /\ deleted_with = {}

\* C5: every operation emits a log line before it ends: an info line when
\* all its calls went through, an error line when one failed.
C5_EveryPathLogs ==
    op \in Operations =>
        IF SomeCallFailed THEN Logged("error") ELSE Logged("info")

\* A handle that was issued and is not the latest delivery of a queued message.
IsStale(h) == h \in IssuedHandles /\ ~IsCurrent(h)

\* C10: delete_sqs_message with a stale handle on an existing queue raises
\* nothing, returns None, leaves the queue as it was and, when the service
\* rejects the delete call, logs an error.
C10_StaleHandleDelete ==
    [][ (op' = "delete_sqs_message" /\ arg_queue' \in ExistingQueues /\ IsStale(arg_handle')) =>
            /\ raised' = ""
            /\ ret' = None
            /\ msgs' = msgs
            /\ ~calls'[2].ok => \E i \in DOMAIN logs' : logs'[i].level = "error" ]_vars

C10_Witness ==
    /\ op = "delete_sqs_message"
    /\ arg_queue \in ExistingQueues
    /\ IsStale(arg_handle)
    /\ ~msgs[arg_handle[1]].inQueue
    /\ calls = <<Call("get_queue_url", TRUE), Call("delete_message", FALSE)>>
    /\ Logged("error")
    /\ raised = ""

\* The last step of send_sqs_message succeeded on a queue that was empty.
SentToEmptyQueue ==
    /\ op = "send_sqs_message"
    /\ ret # None
    /\ InQueue = {Len(msgs)}

\* The response holds exactly one message and its body decodes to p.
OneMessageDecodingTo(response, p) ==
    /\ response # None
    /\ "Messages" \in DOMAIN response.val
    /\ Len(response.val.Messages) = 1
    /\ loads(response.val.Messages[1].Body) = p

\* C4 as stated: for every payload, the successful receive that follows a
\* successful send to an empty queue returns one message that decodes to it.
C4_RoundTripAnyPayload ==
    [][ (SentToEmptyQueue /\ op' = "retrieve_sqs_messages" /\ ret' # None) =>
            OneMessageDecodingTo(ret', msgs[Len(msgs)].param) ]_vars

\* A value json.loads can give back: None, bool, int, str, lists of such
\* values and dicts of such values under str keys.
RECURSIVE JsonNative(_)
JsonNative(x) ==
    CASE x.t = "list" -> \A i \in DOMAIN x.v : JsonNative(x.v[i])
      [] x.t = "dict" -> \A i \in DOMAIN x.v : x.v[i][1].t = "str" /\ JsonNative(x.v[i][2])
      [] x.t = "tuple" -> FALSE
      [] OTHER -> TRUE

\* C4 amended: the round trip holds for every payload made only of None,
\* booleans, integers, strings, lists and dicts with string keys.
C4_RoundTripJsonNative ==
    [][ (SentToEmptyQueue /\ op' = "retrieve_sqs_messages" /\ ret' # None) =>
            /\ "Messages" \in DOMAIN ret'.val
            /\ Len(ret'.val.Messages) = 1
            /\ JsonNative(msgs[Len(msgs)].param) =>
                   loads(ret'.val.Messages[1].Body) = msgs[Len(msgs)].param ]_vars

C4_Witness ==
    /\ op = "retrieve_sqs_messages"
    /\ delivered = 1
    /\ msgs[1].deliveries = 1
    /\ waited = 0
    /\ msgs[1].param = PyDict(<<<<PyStr("k"), PyStr("v")>>>>)
    /\ OneMessageDecodingTo(ret, msgs[1].param)

====
